---- MODULE Spec2Model ----
(***************************************************************************)
(* A model of the text-analysis backend: Normalizer (utils.py),            *)
(* KeywordExtractor (keyword_extractor.py), TripleExtractor                *)
(* (triple_extractor.py), TextAnalyzer.analyze (text_analyzer.py) and the  *)
(* /api/analyze route (api_builder.py).                                    *)
(*                                                                         *)
(* A Python str is a sequence of code points, each code point a one-       *)
(* element name: "a", "A", "b", "s", " ", and "a_breve" (U+0103),          *)
(* "A_breve" (U+0102), "breve" (the combining mark U+0306, category Mn).   *)
(* A float is a fixed-point integer, Scale units to 1.0.                   *)
(***************************************************************************)
EXTENDS Integers, Sequences, FiniteSets, TLC

VARIABLES
    pc,                 \* position of the running operation
    doc,                \* the annotated document: a sequence of tokens
    stopwords,          \* KeywordExtractor.stopwords
    top_k,              \* the top_k argument of rake / textrank
    rake_keywords,      \* result of KeywordExtractor.rake
    vocab_list,         \* textrank: vocabulary, first-seen order
    transition_matrix,  \* textrank: row-normalised adjacency matrix
    scores,             \* textrank: current score vector
    iterations,         \* textrank: iterations of the while loop done
    textrank_keywords,  \* result of KeywordExtractor.textrank
    first_run,          \* keyword lists returned by the previous run on the same input
    ents,               \* doc.ents: sequence of entity spans
    entities,           \* analyze: the normalized-text -> label dict (insertion ordered)
    triples,            \* result of TripleExtractor.extract
    kg,                 \* result of TripleExtractor.to_graph
    qa,                 \* analyze: the five QA buckets
    ner_by_label,       \* analyze: label -> entity texts (insertion ordered)
    request,            \* /api/analyze: the form of the request being handled
    response,           \* /api/analyze: what the handler returned
    analyzer_calls      \* /api/analyze: texts TextAnalyzer.analyze was called with

vars == <<pc, doc, stopwords, top_k, rake_keywords, vocab_list, transition_matrix,
          scores, iterations, textrank_keywords, first_run, ents, entities, triples,
          kg, qa, ner_by_label, request, response, analyzer_calls>>

kwVars == <<stopwords, top_k, rake_keywords, vocab_list, transition_matrix,
            scores, iterations, textrank_keywords, first_run>>
anVars == <<ents, entities, triples, kg, qa, ner_by_label>>
apiVars == <<request, response, analyzer_calls>>

----------------------------------------------------------------------------
(* Generic sequence helpers (Python list / str primitives).                *)

Range(s) == {s[i] : i \in DOMAIN s}

Min(a, b) == IF a < b THEN a ELSE b

Abs(x) == IF x < 0 THEN -x ELSE x

\* all sequences over S of length lo..hi
SeqsOf(S, lo, hi) == UNION {[1..n -> S] : n \in lo..hi}

\* Python `p in q` for str (and contiguous containment for any sequence)
Contains(q, p) ==
    \E i \in 0..(Len(q) - Len(p)) : SubSeq(q, i + 1, i + Len(p)) = p

\* Python `x in list`
Member(x, s) == \E i \in DOMAIN s : s[i] = x

RECURSIVE Concat(_)
Concat(ss) == IF ss = <<>> THEN <<>> ELSE Head(ss) \o Concat(Tail(ss))

\* Python `sep.join(parts)`
RECURSIVE Join(_, _)
Join(sep, parts) ==
    IF parts = <<>> THEN <<>>
    ELSE IF Len(parts) = 1 THEN parts[1]
    ELSE parts[1] \o sep \o Join(sep, Tail(parts))

Space == <<" ">>

IsSpace(c) == c = " "

\* Python `s.split()`: the maximal runs of non-whitespace code points
RECURSIVE SplitFrom(_, _, _)
SplitFrom(s, i, cur) ==
    IF i > Len(s) THEN (IF cur = <<>> THEN <<>> ELSE <<cur>>)
    ELSE IF IsSpace(s[i])
         THEN (IF cur = <<>> THEN <<>> ELSE <<cur>>) \o SplitFrom(s, i + 1, <<>>)
         ELSE SplitFrom(s, i + 1, Append(cur, s[i]))

Split(s) == SplitFrom(s, 1, <<>>)

\* Python `sorted(xs, key=...)` descending on an integer key, keys[i] the key
\* of xs[i]; stable (sorted(..., key=lambda x: -k(x)) and
\* sorted(..., reverse=True) both keep the input order of equal keys).
RECURSIVE InsertDesc(_, _, _)
InsertDesc(idx, i, keys) ==
    IF idx = <<>> THEN <<i>>
    ELSE IF keys[Head(idx)] >= keys[i]
         THEN <<Head(idx)>> \o InsertDesc(Tail(idx), i, keys)
         ELSE <<i>> \o idx

RECURSIVE SortedIdxFrom(_, _, _)
SortedIdxFrom(keys, i, acc) ==
    IF i > Len(keys) THEN acc
    ELSE SortedIdxFrom(keys, i + 1, InsertDesc(acc, i, keys))

SortedDesc(xs, keys) ==
    LET idx == SortedIdxFrom(keys, 1, <<>>)
    IN  [k \in DOMAIN xs |-> xs[idx[k]]]

----------------------------------------------------------------------------
(* utils.py: Normalizer                                                    *)

\* str.lower() on one code point
LowerChar(c) ==
    CASE c = "A" -> "a"
      [] c = "A_breve" -> "a_breve"
      [] OTHER -> c

\* unicodedata.normalize("NFD", .) on one code point
NFDChar(c) ==
    CASE c = "a_breve" -> <<"a", "breve">>
      [] c = "A_breve" -> <<"A", "breve">>
      [] OTHER -> <<c>>

\* unicodedata.category(c) != "Mn"
NotMn(c) == c # "breve"

Lower(t) == [i \in DOMAIN t |-> LowerChar(t[i])]

NFD(t) == Concat([i \in DOMAIN t |-> NFDChar(t[i])])

strip_diacritics(t) == SelectSeq(NFD(t), NotMn)

norm(t) == strip_diacritics(Lower(t))

----------------------------------------------------------------------------
(* The annotated document: spaCy tokens with the fields the code reads.    *)

\* a token; head is the index of the syntactic head in the document
Token(text, lemma, pos, dep, head, is_alpha, ent_type) ==
    [text |-> text, lemma |-> lemma, pos |-> pos, dep |-> dep, head |-> head,
     is_alpha |-> is_alpha, ent_type |-> ent_type]

\* Python dict (insertion ordered) as a sequence of <<key, value>> pairs
DictHas(d, k) == \E i \in DOMAIN d : d[i][1] = k

DictGet(d, k) == d[CHOOSE i \in DOMAIN d : d[i][1] = k][2]

\* d[k] = v: a new key is appended, an existing key keeps its place
DictSet(d, k, v) ==
    IF DictHas(d, k)
    THEN [i \in DOMAIN d |-> IF d[i][1] = k THEN <<k, v>> ELSE d[i]]
    ELSE Append(d, <<k, v>>)

DictKeys(d) == [i \in DOMAIN d |-> d[i][1]]

DictValues(d) == [i \in DOMAIN d |-> d[i][2]]

----------------------------------------------------------------------------
(* Fixed-point floats.                                                     *)

\* units to 1.0
Scale == 10 ^ 6

\* units to 0.0001, the resolution of round(x, 4)
RoundUnit == Scale \div (10 ^ 4)

\* round(float(score), 4), in units of 0.0001
Round4(x) == (2 * x + RoundUnit) \div (2 * RoundUnit)

\* a keyword entry {"keyword": phrase, "score": round(float(score), 4)}
Keyword(phrase, score) == [keyword |-> phrase, score |-> Round4(score)]

----------------------------------------------------------------------------
(* keyword_extractor.py: RAKE                                              *)

\* KeywordExtractor._normalize
normalize(token) == norm(token.lemma)

\* the loop of _rake_phrases over the tokens from position i on
RECURSIVE RakePhrasesFrom(_, _, _, _, _)
RakePhrasesFrom(d, sw, i, phrase_list, current_phrase) ==
    IF i > Len(d)
    THEN (IF current_phrase # <<>> THEN Append(phrase_list, current_phrase)
          ELSE phrase_list)
    ELSE IF d[i].is_alpha /\ normalize(d[i]) \notin sw
         THEN RakePhrasesFrom(d, sw, i + 1, phrase_list,
                              Append(current_phrase, normalize(d[i])))
         ELSE IF current_phrase # <<>>
              THEN RakePhrasesFrom(d, sw, i + 1,
                                   Append(phrase_list, current_phrase), <<>>)
              ELSE RakePhrasesFrom(d, sw, i + 1, phrase_list, <<>>)

\* KeywordExtractor._rake_phrases: the candidate phrases of 1 to 3 words
LengthOk(phrase) == 1 <= Len(phrase) /\ Len(phrase) <= 3

rake_phrases(d, sw) == SelectSeq(RakePhrasesFrom(d, sw, 1, <<>>, <<>>), LengthOk)

\* number of occurrences of word in phrase
Occurrences(phrase, word) == Cardinality({i \in DOMAIN phrase : phrase[i] = word})

RECURSIVE SumSeq(_)
SumSeq(s) == IF s = <<>> THEN 0 ELSE Head(s) + SumSeq(Tail(s))

\* KeywordExtractor._word_scores, for one word: (degree + freq) / freq
word_freq(phrases, word) ==
    SumSeq([p \in DOMAIN phrases |-> Occurrences(phrases[p], word)])

word_degree(phrases, word) ==
    SumSeq([p \in DOMAIN phrases |->
              Occurrences(phrases[p], word) * (Len(phrases[p]) - 1)])

word_score(phrases, word) ==
    ((word_degree(phrases, word) + word_freq(phrases, word)) * Scale)
        \div word_freq(phrases, word)

\* KeywordExtractor._phrase_scores: the dict " ".join(phrase) -> score
RECURSIVE PhraseScoresFrom(_, _, _)
PhraseScoresFrom(phrases, i, acc) ==
    IF i > Len(phrases) THEN acc
    ELSE PhraseScoresFrom(phrases, i + 1,
            DictSet(acc, Join(Space, phrases[i]),
                    SumSeq([w \in DOMAIN phrases[i] |->
                              word_score(phrases, phrases[i][w])])))

phrase_scores(phrases) == PhraseScoresFrom(phrases, 1, <<>>)

\* the loop of rake over sorted_phrases from position i on; the break is
\* tested after the append only
RakeLoopBreak(final_keywords, k) == Len(final_keywords) = k

RECURSIVE RakeLoop(_, _, _, _, _)
RakeLoop(sorted_phrases, i, seen_norms, final_keywords, k) ==
    IF i > Len(sorted_phrases) THEN final_keywords
    ELSE LET phrase == sorted_phrases[i][1]
             score == sorted_phrases[i][2]
             normalized == norm(phrase)
         IN  IF normalized \in seen_norms
             THEN RakeLoop(sorted_phrases, i + 1, seen_norms, final_keywords, k)
             ELSE LET appended == Append(final_keywords, Keyword(phrase, score))
                  IN  IF RakeLoopBreak(appended, k) THEN appended
                      ELSE RakeLoop(sorted_phrases, i + 1,
                                    seen_norms \cup {normalized}, appended, k)

\* KeywordExtractor.rake
rake(d, sw, k) ==
    LET phrases == rake_phrases(d, sw)
    IN  IF phrases = <<>> THEN <<>>
        ELSE LET ps == phrase_scores(phrases)
                 sorted_phrases == SortedDesc(ps, DictValues(ps))
             IN  RakeLoop(sorted_phrases, 1, {}, <<>>, k)

----------------------------------------------------------------------------
(* keyword_extractor.py: TextRank                                          *)

\* textrank's default window
window == 4

\* textrank's default d = 0.85, as the fraction d_num / d_den
d_num == 17

d_den == 20

\* (1 - d)
OneMinusD == ((d_den - d_num) * Scale) \div d_den

\* textrank's default convergence_threshold = 1e-5
convergence_threshold == Scale \div (10 ^ 5)

\* the largest magnitude a score can have before it overflows to inf
FloatMax == 8 * Scale

\* a score that is inf or nan
NonFinite == FloatMax + 1

\* the token test of Step 1 and Step 4
IsNounOrAdj(token) == token.pos \in {"NOUN", "ADJ"} /\ token.is_alpha

\* Step 1: candidate lemmas, document order, duplicates included
RECURSIVE CandidatesFrom(_, _, _, _)
CandidatesFrom(d, sw, i, acc) ==
    IF i > Len(d) THEN acc
    ELSE IF IsNounOrAdj(d[i]) /\ norm(d[i].lemma) \notin sw
         THEN CandidatesFrom(d, sw, i + 1, Append(acc, norm(d[i].lemma)))
         ELSE CandidatesFrom(d, sw, i + 1, acc)

candidate_lemmas(d, sw) == CandidatesFrom(d, sw, 1, <<>>)

\* list(dict.fromkeys(xs)): first occurrences, in order
RECURSIVE FromKeys(_, _, _)
FromKeys(xs, i, acc) ==
    IF i > Len(xs) THEN acc
    ELSE FromKeys(xs, i + 1, IF Member(xs[i], acc) THEN acc ELSE Append(acc, xs[i]))

vocab_of(cands) == FromKeys(cands, 1, <<>>)

word_to_index(vocab, word) == CHOOSE i \in DOMAIN vocab : vocab[i] = word

\* Step 2: the pairs (i, j) of candidate positions the two loops visit,
\* j in range(i + 1, min(i + window, len(candidate_lemmas)))
WindowPairs(n) ==
    {<<i, j>> \in (1..n) \X (1..n) : i < j /\ j <= Min(i + window - 1, n)}

\* Step 2: adjacency_matrix[a, b]
adjacency(cands, vocab, a, b) ==
    IF a = b THEN 0
    ELSE Cardinality({p \in WindowPairs(Len(cands)) :
            LET x == word_to_index(vocab, cands[p[1]])
                y == word_to_index(vocab, cands[p[2]])
            IN  (x = a /\ y = b) \/ (x = b /\ y = a)})

\* Step 3: adjacency_matrix.sum(axis=1)
row_sum(cands, vocab, a) ==
    SumSeq([b \in DOMAIN vocab |-> adjacency(cands, vocab, a, b)])

\* the entries np.divide(..., where=row_sums != 0) does not write: with no
\* out= argument they keep whatever the freshly allocated array held
Unwritten(cands, vocab) ==
    {e \in (DOMAIN vocab) \X (DOMAIN vocab) : row_sum(cands, vocab, e[1]) = 0}

\* what an unwritten entry may hold, as fractions <<numerator, denominator>>
Uninitialized == {<<0, 1>>, <<0 - 1, 1>>, <<2, 1>>}

\* Step 3: transition_matrix, each entry a fraction; fresh is the content of
\* the output array before np.divide writes into it
np_divide(cands, vocab, fresh) ==
    [a \in DOMAIN vocab |-> [b \in DOMAIN vocab |->
        IF row_sum(cands, vocab, a) # 0
        THEN <<adjacency(cands, vocab, a, b), row_sum(cands, vocab, a)>>
        ELSE fresh[<<a, b>>]]]

\* np.random.rand(n): the sampled vectors the model draws from
RandomVectors(n) ==
    {[i \in 1..n |-> IF i % 2 = 1 THEN Scale \div 10 ELSE (9 * Scale) \div 10],
     [i \in 1..n |-> IF i % 2 = 1 THEN (9 * Scale) \div 10 ELSE Scale \div 10]}

\* fraction times float
Times(frac, x) == (frac[1] * x) \div frac[2]

IsFinite(v) == \A i \in DOMAIN v : v[i] # NonFinite

Overflow(x) == IF Abs(x) > FloatMax THEN NonFinite ELSE x

\* one pass of the loop body: (1 - d) + d * transition_matrix.T @ prev_scores
power_step(T, prev_scores) ==
    IF ~IsFinite(prev_scores) THEN [b \in DOMAIN prev_scores |-> NonFinite]
    ELSE [b \in DOMAIN prev_scores |->
            Overflow(OneMinusD +
                (d_num * SumSeq([a \in DOMAIN prev_scores |->
                                    Times(T[a][b], prev_scores[a])])) \div d_den)]

\* np.linalg.norm(scores - prev_scores, 1) < convergence_threshold
\* (a comparison with nan or inf is False)
converged(new_scores, prev_scores) ==
    /\ IsFinite(new_scores) /\ IsFinite(prev_scores)
    /\ SumSeq([i \in DOMAIN new_scores |-> Abs(new_scores[i] - prev_scores[i])])
          < convergence_threshold

\* a bug Step 4 could have: the phrases are built from the lemmas as they
\* are, not from their normalized forms
RECURSIVE TextRankPhrasesRaw(_, _, _, _, _)
TextRankPhrasesRaw(d, vocab, sc, i, acc) ==
    IF i > Len(d) THEN acc
    ELSE LET norm1 == norm(d[i].lemma)
             ws(w) == sc[word_to_index(vocab, w)]
         IN  IF IsNounOrAdj(d[i]) /\ Member(norm1, vocab)
             THEN IF /\ i + 1 <= Len(d)
                     /\ IsNounOrAdj(d[i + 1])
                     /\ Member(norm(d[i + 1].lemma), vocab)
                  THEN LET norm2 == norm(d[i + 1].lemma)
                       IN  TextRankPhrasesRaw(d, vocab, sc, i + 2,
                               DictSet(acc, d[i].lemma \o Space \o d[i + 1].lemma,
                                       ws(norm1) + ws(norm2)))
                  ELSE TextRankPhrasesRaw(d, vocab, sc, i + 1,
                               DictSet(acc, d[i].lemma, ws(norm1)))
             ELSE TextRankPhrasesRaw(d, vocab, sc, i + 1, acc)

\* Step 4: the while loop over the document from token i on
RECURSIVE TextRankPhrases(_, _, _, _, _)
TextRankPhrases(d, vocab, sc, i, acc) ==
    IF i > Len(d) THEN acc
    ELSE LET norm1 == norm(d[i].lemma)
             ws(w) == sc[word_to_index(vocab, w)]
         IN  IF IsNounOrAdj(d[i]) /\ Member(norm1, vocab)
             THEN IF /\ i + 1 <= Len(d)
                     /\ IsNounOrAdj(d[i + 1])
                     /\ Member(norm(d[i + 1].lemma), vocab)
                  THEN LET norm2 == norm(d[i + 1].lemma)
                       IN  TextRankPhrases(d, vocab, sc, i + 2,
                               DictSet(acc, norm1 \o Space \o norm2,
                                       ws(norm1) + ws(norm2)))
                  ELSE TextRankPhrases(d, vocab, sc, i + 1,
                               DictSet(acc, norm1, ws(norm1)))
             ELSE TextRankPhrases(d, vocab, sc, i + 1, acc)

\* sorted_phrases[:top_k]
Take(xs, k) == SubSeq(xs, 1, Min(k, Len(xs)))

\* Step 5: sort, cut to top_k, round
top_phrases(d, vocab, sc, k) ==
    LET ps == TextRankPhrases(d, vocab, sc, 1, <<>>)
        sorted_phrases == SortedDesc(ps, DictValues(ps))
        cut == Take(sorted_phrases, k)
    IN  [i \in DOMAIN cut |-> Keyword(cut[i][1], cut[i][2])]

----------------------------------------------------------------------------
(* triple_extractor.py                                                     *)

\* the string literals "amod" and "nmod"
AMOD == <<"a", "m", "o", "d">>

NMOD == <<"n", "m", "o", "d">>

\* token.children: the tokens whose head is token i, in document order
children(d, i) ==
    LET IsChild(j) == d[j].head = i /\ j # i
    IN  SelectSeq([j \in DOMAIN d |-> j], IsChild)

SubjectDeps == {"nsubj", "nsubjpass"}

ObjectDeps == {"attr", "acomp", "dobj", "obj", "pobj", "obl", "xcomp", "ccomp"}

\* the triplets the verb at position i contributes: one per object-like
\* child, when the verb has a subject child
VerbTriplets(d, i) ==
    LET IsSubj(j) == d[j].dep \in SubjectDeps
        IsObj(j) == d[j].dep \in ObjectDeps
        subjects == SelectSeq(children(d, i), IsSubj)
        obj_tokens == SelectSeq(children(d, i), IsObj)
    IN  IF d[i].pos \in {"VERB", "AUX"} /\ subjects # <<>>
        THEN [k \in DOMAIN obj_tokens |->
                <<norm(d[subjects[1]].lemma), norm(d[i].lemma),
                  norm(d[obj_tokens[k]].lemma)>>]
        ELSE <<>>

\* the triplet of a modifier at position i with the label lit ("amod", "nmod")
ModifierTriplets(d, i, dep, lit) ==
    IF d[i].dep = dep /\ d[d[i].head].pos = "NOUN"
    THEN <<<<norm(d[d[i].head].lemma), lit, norm(d[i].lemma)>>>>
    ELSE <<>>

\* the loop over the tokens of every sentence, in document order
RECURSIVE ExtractedFrom(_, _)
ExtractedFrom(d, i) ==
    IF i > Len(d) THEN <<>>
    ELSE VerbTriplets(d, i) \o ModifierTriplets(d, i, "amod", AMOD)
            \o ModifierTriplets(d, i, "nmod", NMOD) \o ExtractedFrom(d, i + 1)

\* TripleExtractor.extract: the triplets, duplicates removed
extract(d) == FromKeys(ExtractedFrom(d, 1), 1, <<>>)

\* a bug AddNode could have: the node is appended whether seen or not
AddNodeAlways(nodes, x) == Append(nodes, x)

\* nodes.append({"id": x}) unless x was seen
AddNode(nodes, x) == IF Member(x, nodes) THEN nodes ELSE Append(nodes, x)

\* the loop of to_graph over the triplets from position i on; a node {"id": x}
\* is its id x
RECURSIVE ToGraphFrom(_, _, _, _)
ToGraphFrom(triplets, i, nodes, links) ==
    IF i > Len(triplets) THEN [nodes |-> nodes, links |-> links]
    ELSE LET subject == triplets[i][1]
             predicate == triplets[i][2]
             obj == triplets[i][3]
         IN  ToGraphFrom(triplets, i + 1, AddNode(AddNode(nodes, subject), obj),
                 Append(links,
                     [source |-> subject, target |-> obj, label |-> predicate]))

\* TripleExtractor.to_graph
to_graph(triplets) == ToGraphFrom(triplets, 1, <<>>, <<>>)

----------------------------------------------------------------------------
(* text_analyzer.py: TextAnalyzer.analyze                                  *)

\* str.strip()
RECURSIVE LStrip(_)
LStrip(t) == IF t # <<>> /\ IsSpace(Head(t)) THEN LStrip(Tail(t)) ELSE t

RECURSIVE RStrip(_)
RStrip(t) ==
    IF t # <<>> /\ IsSpace(t[Len(t)]) THEN RStrip(SubSeq(t, 1, Len(t) - 1)) ELSE t

Strip(t) == RStrip(LStrip(t))

\* Named Entity Recognition, first loop: the entity spans
RECURSIVE EntitiesFromSpans(_, _, _)
EntitiesFromSpans(spans, i, acc) ==
    IF i > Len(spans) THEN acc
    ELSE EntitiesFromSpans(spans, i + 1,
            DictSet(acc, norm(Strip(spans[i].text)), spans[i].label))

\* Named Entity Recognition, second loop: the tokens carrying an entity type
RECURSIVE EntitiesFromTokens(_, _, _)
EntitiesFromTokens(d, i, acc) ==
    IF i > Len(d) THEN acc
    ELSE LET norm_token == norm(Strip(d[i].text))
         IN  EntitiesFromTokens(d, i + 1,
                IF d[i].ent_type # "" /\ ~DictHas(acc, norm_token)
                THEN DictSet(acc, norm_token, d[i].ent_type)
                ELSE acc)

\* the entities dict of analyze
named_entities(spans, d) == EntitiesFromTokens(d, 1, EntitiesFromSpans(spans, 1, <<>>))

QAKeys == <<"who", "what", "where", "when", "why">>

EmptyQA == [key \in Range(QAKeys) |-> <<>>]

\* a bug WHAT could have: the phrase is built from the subject, not the predicate
what_phrases_subject(triplets) ==
    LET Contributes(t) == t[2] # <<>> /\ t[3] # <<>> /\ t[2] \notin {AMOD, NMOD}
        kept == SelectSeq(triplets, Contributes)
    IN  [k \in DOMAIN kept |-> kept[k][1] \o Space \o kept[k][3]]

\* WHAT: the phrases the triplets contribute
what_phrases(triplets) ==
    LET Contributes(t) == t[2] # <<>> /\ t[3] # <<>> /\ t[2] \notin {AMOD, NMOD}
        kept == SelectSeq(triplets, Contributes)
    IN  [k \in DOMAIN kept |-> kept[k][2] \o Space \o kept[k][3]]

\* WHERE / WHEN: the entity texts with a label of the given set
entity_phrases(ent_dict, labels) ==
    LET Labelled(e) == e[2] \in labels
    IN  DictKeys(SelectSeq(ent_dict, Labelled))

WhereLabels == {"LOC", "GPE", "FACILITY"}

WhenLabels == {"DATE", "TIME", "DATETIME"}

\* key=lambda x: -len(x.split())
WordCounts(phrases) == [i \in DOMAIN phrases |-> Len(Split(phrases[i]))]

\* any(phrase != other and phrase in other for other in clean)
Subsumed(phrase, clean) ==
    \E k \in DOMAIN clean : phrase # clean[k] /\ Contains(clean[k], phrase)

\* QA remove duplicates, the loop over the sorted phrases from position i on
RECURSIVE QACleanFrom(_, _, _, _)
QACleanFrom(phrases, i, seen, clean) ==
    IF i > Len(phrases) THEN clean
    ELSE IF phrases[i] \notin seen /\ ~Subsumed(phrases[i], clean)
         THEN QACleanFrom(phrases, i + 1, seen \cup {phrases[i]},
                          Append(clean, phrases[i]))
         ELSE QACleanFrom(phrases, i + 1, seen, clean)

qa_clean(candidates) ==
    QACleanFrom(SortedDesc(candidates, WordCounts(candidates)), 1, {}, <<>>)

\* NER remove duplicates, grouping: ner_by_label as label -> texts
RECURSIVE GroupByLabel(_, _, _)
GroupByLabel(ent_dict, i, acc) ==
    IF i > Len(ent_dict) THEN acc
    ELSE LET ent_text == ent_dict[i][1]
             label == ent_dict[i][2]
             sofar == IF DictHas(acc, label) THEN DictGet(acc, label) ELSE <<>>
         IN  GroupByLabel(ent_dict, i + 1, DictSet(acc, label, Append(sofar, ent_text)))

\* NER remove duplicates, the loop over the sorted phrases from position i on
RECURSIVE NERCleanFrom(_, _, _)
NERCleanFrom(phrases, i, clean) ==
    IF i > Len(phrases) THEN clean
    ELSE IF ~Subsumed(phrases[i], clean)
         THEN NERCleanFrom(phrases, i + 1, Append(clean, phrases[i]))
         ELSE NERCleanFrom(phrases, i + 1, clean)

ner_clean(candidates) ==
    NERCleanFrom(SortedDesc(candidates, WordCounts(candidates)), 1, <<>>)

ner_groups(ent_dict) ==
    LET grouped == GroupByLabel(ent_dict, 1, <<>>)
    IN  [g \in DOMAIN grouped |-> <<grouped[g][1], ner_clean(grouped[g][2])>>]

----------------------------------------------------------------------------
(* api_builder.py: the /api/analyze route; pdf_processor.py                *)

\* an optional value: None is <<>>, a value x is <<x>>
None == <<>>

Some(x) == <<x>>

\* str.endswith
EndsWith(t, suffix) ==
    Len(t) >= Len(suffix) /\ SubSeq(t, Len(t) - Len(suffix) + 1, Len(t)) = suffix

DotPdf == <<".", "p", "d", "f">>

\* a byte that starts no valid UTF-8 sequence
InvalidByte == "0xFF"

\* raw.decode("utf-8", errors="ignore")
decode(bytes) ==
    LET Valid(b) == b # InvalidByte
    IN  SelectSeq(bytes, Valid)

\* PDFProcessor.extract_text on a readable PDF: the text of the pages joined
extract_text(raw) == Join(<<>>, raw.pages[1])

\* file.filename.lower().endswith(".pdf") or file.content_type == "application/pdf"
IsPdf(file) ==
    EndsWith(Lower(file.filename), DotPdf) \/ file.content_type = "application/pdf"

\* TextAnalyzer.analyze(txt), as far as the route is concerned: a result for txt
Analyzed(txt) == [kind |-> "result", body |-> txt]

\* a bug the route could have: the text field is looked at before the file
analyze_route_text_first(req) ==
    IF req.text # None /\ req.text[1] # <<>>
    THEN [response |-> Analyzed(req.text[1]), calls |-> <<req.text[1]>>]
    ELSE IF req.file # None
         THEN LET file == req.file[1]
              IN  IF IsPdf(file)
                  THEN IF file.raw.pages = None
                       THEN [response |-> [kind |-> "exception", body |-> <<>>],
                             calls |-> <<>>]
                       ELSE [response |-> Analyzed(extract_text(file.raw)),
                             calls |-> <<extract_text(file.raw)>>]
                  ELSE [response |-> Analyzed(decode(file.raw.bytes)),
                        calls |-> <<decode(file.raw.bytes)>>]
         ELSE [response |-> [kind |-> "error", body |-> <<>>], calls |-> <<>>]

\* the route: what it returns and the texts it calls the analyzer with.
\* fitz.open raises on bytes that are no PDF: the request fails.
analyze_route(req) ==
    IF req.file # None
    THEN LET file == req.file[1]
         IN  IF IsPdf(file)
             THEN IF file.raw.pages = None
                  THEN [response |-> [kind |-> "exception", body |-> <<>>],
                        calls |-> <<>>]
                  ELSE [response |-> Analyzed(extract_text(file.raw)),
                        calls |-> <<extract_text(file.raw)>>]
             ELSE [response |-> Analyzed(decode(file.raw.bytes)),
                   calls |-> <<decode(file.raw.bytes)>>]
    ELSE IF req.text # None /\ req.text[1] # <<>>
         THEN [response |-> Analyzed(req.text[1]), calls |-> <<req.text[1]>>]
         ELSE [response |-> [kind |-> "error", body |-> <<>>], calls |-> <<>>]

----------------------------------------------------------------------------
(* Values of the variables an operation does not use.                      *)

KwIdle ==
    /\ stopwords = {} /\ top_k = 0 /\ rake_keywords = <<>>
    /\ vocab_list = <<>> /\ transition_matrix = <<>> /\ scores = <<>>
    /\ iterations = 0 /\ textrank_keywords = <<>> /\ first_run = <<>>

AnIdle ==
    /\ ents = <<>> /\ entities = <<>> /\ triples = <<>>
    /\ kg = [nodes |-> <<>>, links |-> <<>>]
    /\ qa = EmptyQA /\ ner_by_label = <<>>

ApiIdle ==
    /\ request = [text |-> None, file |-> None]
    /\ response = [kind |-> "none", body |-> <<>>]
    /\ analyzer_calls = <<>>

----------------------------------------------------------------------------
(* The keyword extractor at work on one document: rake(txt, top_k), then   *)
(* textrank(doc, top_k), as TextAnalyzer.analyze calls them; then the same *)
(* input once more.                                                        *)

\* longest document
MaxTokens == 3

\* the model stops counting iterations here
MaxIterations == 110

\* two nouns and an adjective, two of them with the same normalized lemma;
\* a verb; a token that is not alphabetic
KwTokens ==
    {Token(<<"A">>, <<"A">>, "NOUN", "dep", 0, TRUE, ""),
     Token(<<"a_breve">>, <<"a_breve">>, "ADJ", "dep", 0, TRUE, ""),
     Token(<<"b">>, <<"b">>, "NOUN", "dep", 0, TRUE, ""),
     Token(<<"b">>, <<"b">>, "VERB", "dep", 0, TRUE, ""),
     Token(<<"b">>, <<"b">>, "NOUN", "dep", 0, FALSE, "")}

StopwordSets == {{}, {<<"b">>}}

TopKs == {0, 1, 10}

InitKeywords ==
    /\ pc = "rake"
    /\ doc \in SeqsOf(KwTokens, 0, MaxTokens)
    /\ stopwords \in StopwordSets
    /\ top_k \in TopKs
    /\ rake_keywords = <<>>
    /\ vocab_list = <<>> /\ transition_matrix = <<>> /\ scores = <<>>
    /\ iterations = 0 /\ textrank_keywords = <<>> /\ first_run = <<>>
    /\ AnIdle /\ ApiIdle

\* rake_keywords = self.keyword_extractor.rake(txt)
Rake ==
    /\ pc = "rake"
    /\ rake_keywords' = rake(doc, stopwords, top_k)
    /\ pc' = "textrank"
    /\ UNCHANGED <<doc, stopwords, top_k, vocab_list, transition_matrix, scores,
                   iterations, textrank_keywords, first_run, anVars, apiVars>>

\* textrank, Step 1 with no candidate lemma: return []
TextRankEmpty ==
    /\ pc = "textrank"
    /\ candidate_lemmas(doc, stopwords) = <<>>
    /\ textrank_keywords' = <<>>
    /\ pc' = "done"
    /\ UNCHANGED <<doc, stopwords, top_k, rake_keywords, vocab_list,
                   transition_matrix, scores, iterations, first_run, anVars, apiVars>>

\* textrank, Steps 1 to 3 up to the start of the loop
TextRankStart ==
    /\ pc = "textrank"
    /\ LET cands == candidate_lemmas(doc, stopwords)
           vocab == vocab_of(cands)
       IN  /\ cands # <<>>
           /\ vocab_list' = vocab
           /\ \E fresh \in [Unwritten(cands, vocab) -> Uninitialized] :
                transition_matrix' = np_divide(cands, vocab, fresh)
           /\ scores' \in RandomVectors(Len(vocab))
    /\ iterations' = 0
    /\ pc' = "loop"
    /\ UNCHANGED <<doc, stopwords, top_k, rake_keywords, textrank_keywords,
                   first_run, anVars, apiVars>>

\* one iteration of `while True`, the break test included
Iterate ==
    /\ pc = "loop"
    /\ iterations < MaxIterations
    /\ LET new_scores == power_step(transition_matrix, scores)
       IN  /\ scores' = new_scores
           /\ pc' = IF converged(new_scores, scores) THEN "rank" ELSE "loop"
    /\ iterations' = iterations + 1
    /\ UNCHANGED <<doc, stopwords, top_k, rake_keywords, vocab_list,
                   transition_matrix, textrank_keywords, first_run, anVars, apiVars>>

\* textrank, Steps 4 and 5
TextRankFinish ==
    /\ pc = "rank"
    /\ textrank_keywords' = top_phrases(doc, vocab_list, scores, top_k)
    /\ pc' = "done"
    /\ UNCHANGED <<doc, stopwords, top_k, rake_keywords, vocab_list,
                   transition_matrix, scores, iterations, first_run, anVars, apiVars>>

\* the same text, stopword set and annotation are analyzed a second time
Again ==
    /\ pc = "done"
    /\ first_run = <<>>
    /\ first_run' = <<[rake |-> rake_keywords, textrank |-> textrank_keywords]>>
    /\ rake_keywords' = <<>>
    /\ vocab_list' = <<>> /\ transition_matrix' = <<>> /\ scores' = <<>>
    /\ iterations' = 0 /\ textrank_keywords' = <<>>
    /\ pc' = "rake"
    /\ UNCHANGED <<doc, stopwords, top_k, anVars, apiVars>>

NextKeywords ==
    \/ Rake
    \/ TextRankEmpty
    \/ TextRankStart
    \/ Iterate
    \/ TextRankFinish

SpecKeywords == InitKeywords /\ [][NextKeywords]_vars

\* two runs on one input, with analyze's defaults (top_k = 10)
InitRepeat ==
    /\ InitKeywords
    /\ stopwords = {}
    /\ top_k = 10

NextRepeat ==
    \/ Rake
    \/ TextRankEmpty
    \/ TextRankStart
    \/ Iterate
    \/ TextRankFinish
    \/ Again

SpecRepeat == InitRepeat /\ [][NextRepeat]_vars

----------------------------------------------------------------------------
(* Claims about the keyword extractor.                                     *)

\* C1: the power-iteration loop stops as soon as the L1 distance is below
\* the tolerance or 100 iterations were made, whichever comes first: no run
\* makes more than 100 iterations.
C1_LoopStopsWithinCap == iterations <= 100

\* C2: two runs on the same text, stopword set and annotation return the
\* same rake and textrank lists (same entries, order and rounded scores).
C2_RunsAgree ==
    (pc = "done" /\ first_run # <<>>) =>
        first_run[1] = [rake |-> rake_keywords, textrank |-> textrank_keywords]

\* no two entries of a keyword list have the same normalized keyword
NoDupNorm(keywords) ==
    \A i, j \in DOMAIN keywords :
        i # j => norm(keywords[i].keyword) # norm(keywords[j].keyword)

\* C5: neither the rake list nor the textrank list holds two entries whose
\* keywords have the same normalized form.
C5_NoDuplicateNormalizedKeyword ==
    NoDupNorm(rake_keywords) /\ NoDupNorm(textrank_keywords)

\* both lists were returned with one entry for a document in which two
\* phrases, of different lemmas, have the same normalized form
C5_Witness ==
    /\ pc = "done"
    /\ top_k = 10
    /\ Len(rake_keywords) = 1 /\ Len(textrank_keywords) = 1
    /\ Len(rake_phrases(doc, stopwords)) = 2
    /\ \E i, j \in DOMAIN doc :
          doc[i].lemma # doc[j].lemma /\ norm(doc[i].lemma) = norm(doc[j].lemma)

\* the distinct normalized retained phrases of the document
RetainedNorms ==
    {norm(Join(Space, ph)) : ph \in Range(rake_phrases(doc, stopwords))}

\* C6: rake returns exactly min(top_k, number of distinct normalized retained
\* phrases) entries, top_k = 0 included, in non-increasing score order, each
\* phrase of 1 to 3 words; the empty list when nothing is retained.
C6_RakeCount ==
    pc # "rake" =>
        /\ Len(rake_keywords) = Min(top_k, Cardinality(RetainedNorms))
        /\ \A i \in DOMAIN rake_keywords :
              /\ Len(Split(rake_keywords[i].keyword)) \in 1..3
              /\ i > 1 => rake_keywords[i - 1].score >= rake_keywords[i].score

\* the total co-occurrence weight of row a of the graph of the document
RowWeight(a) == row_sum(candidate_lemmas(doc, stopwords), vocab_list, a)

\* C10: every row of the transition matrix either sums to 1 (its total weight
\* is not zero) or is all zero (its total weight is zero), and every score
\* after an iteration is at least (1 - d).
C10_RowsNormalizedOrZero ==
    pc \in {"loop", "rank"} =>
        /\ \A a \in DOMAIN transition_matrix :
              LET row == transition_matrix[a]
              IN  IF RowWeight(a) # 0
                  THEN SumSeq([b \in DOMAIN row |-> row[b][1]]) = row[a][2]
                  ELSE \A b \in DOMAIN row : row[b][1] = 0
        /\ (iterations >= 1 /\ IsFinite(scores)) =>
              \A i \in DOMAIN scores : scores[i] >= OneMinusD

----------------------------------------------------------------------------
(* The graph projection applied to a list of triples.                      *)

\* longest list of triples
MaxTriples == 3

GraphWords == {<<"a">>, <<"b">>, <<"c">>}

GraphTriples == GraphWords \X {<<"b">>, AMOD} \X GraphWords

InitGraph ==
    /\ pc = "graph"
    /\ doc = <<>>
    /\ triples \in SeqsOf(GraphTriples, 0, MaxTriples)
    /\ ents = <<>> /\ entities = <<>>
    /\ kg = [nodes |-> <<>>, links |-> <<>>]
    /\ qa = EmptyQA /\ ner_by_label = <<>>
    /\ KwIdle /\ ApiIdle

\* kg = self.triple_extractor.to_graph(triples)
ToGraph ==
    /\ pc = "graph"
    /\ kg' = to_graph(triples)
    /\ pc' = "what"
    /\ UNCHANGED <<doc, ents, entities, triples, qa, ner_by_label, kwVars, apiVars>>

NextGraph == ToGraph

SpecGraph == InitGraph /\ [][NextGraph]_vars

\* the subjects and objects of the triples, in order of appearance
RECURSIVE Endpoints(_)
Endpoints(ts) ==
    IF ts = <<>> THEN <<>> ELSE <<Head(ts)[1], Head(ts)[3]>> \o Endpoints(Tail(ts))

FirstIndex(xs, x) == CHOOSE i \in DOMAIN xs : xs[i] = x /\ \A j \in 1..(i - 1) : xs[j] # x

\* C4: the node list has no repeated id, is in first-seen order and holds
\* exactly the subjects and objects of the triples; there is one link per
\* triple, in triple order, and every source and target is a node id.
C4_GraphProjection ==
    pc = "what" =>
        LET ends == Endpoints(triples)
        IN  /\ \A i, j \in DOMAIN kg.nodes : i # j => kg.nodes[i] # kg.nodes[j]
            /\ Range(kg.nodes) = Range(ends)
            /\ Len(kg.nodes) = Cardinality(Range(ends))
            /\ \A i, j \in DOMAIN kg.nodes :
                  i < j => FirstIndex(ends, kg.nodes[i]) < FirstIndex(ends, kg.nodes[j])
            /\ \A n \in Range(kg.nodes) :
                  \E l \in DOMAIN kg.links :
                      kg.links[l].source = n \/ kg.links[l].target = n
            /\ Len(kg.links) = Len(triples)
            /\ \A l \in DOMAIN kg.links :
                  /\ kg.links[l] = [source |-> triples[l][1], target |-> triples[l][3],
                                    label |-> triples[l][2]]
                  /\ kg.links[l].source \in Range(kg.nodes)
                  /\ kg.links[l].target \in Range(kg.nodes)

\* a graph of three triples in which a subject and an object come back
C4_Witness ==
    /\ pc = "what"
    /\ Len(triples) = 3
    /\ Len(kg.nodes) = 2
    /\ triples[1][1] = triples[2][3]
    /\ triples[1] # triples[3]

----------------------------------------------------------------------------
(* Triple extraction and the WHAT bucket on a dependency-annotated         *)
(* document.                                                               *)

\* longest dependency-annotated document
MaxDepTokens == 3

\* <<pos, dep, lemma>> of the tokens of these documents
DepKinds ==
    {<<"VERB", "ROOT", <<"b">>>>, <<"NOUN", "nsubj", <<"A">>>>,
     <<"NOUN", "obj", <<"b">>>>, <<"NOUN", "obj", <<>>>>,
     <<"ADJ", "amod", <<"a_breve">>>>, <<"NOUN", "nmod", <<"A">>>>}

\* the head chain of token i ends in a root within fuel steps
RECURSIVE ReachesRoot(_, _, _)
ReachesRoot(d, i, fuel) ==
    \/ d[i].head = i
    \/ fuel > 0 /\ ReachesRoot(d, d[i].head, fuel - 1)

\* a dependency parse: the roots are the tokens that are their own head,
\* and the heads form trees
IsParse(d) ==
    \A i \in DOMAIN d :
        /\ (d[i].head = i) <=> (d[i].dep = "ROOT")
        /\ ReachesRoot(d, i, Len(d))

\* the parses of 1 to max tokens
DepDocs(max) ==
    UNION {{d \in {[i \in 1..n |-> Token(f[i][1][3], f[i][1][3], f[i][1][1],
                                         f[i][1][2], f[i][2], TRUE, "")] :
                      f \in [1..n -> DepKinds \X (1..n)]} : IsParse(d)} :
           n \in 1..max}

InitTriples ==
    /\ pc = "extract"
    /\ doc \in DepDocs(MaxDepTokens)
    /\ AnIdle /\ KwIdle /\ ApiIdle

\* triples = self.triple_extractor.extract(doc)
Extract ==
    /\ pc = "extract"
    /\ triples' = extract(doc)
    /\ pc' = "graph"
    /\ UNCHANGED <<doc, ents, entities, kg, qa, ner_by_label, kwVars, apiVars>>

\* WHAT: Extract predicate-object from triplets
What ==
    /\ pc = "what"
    /\ qa' = [qa EXCEPT !["what"] = qa["what"] \o what_phrases(triples)]
    /\ pc' = "qa"
    /\ UNCHANGED <<doc, ents, entities, triples, kg, ner_by_label, kwVars, apiVars>>

NextTriples ==
    \/ Extract
    \/ ToGraph
    \/ What

SpecTriples == InitTriples /\ [][NextTriples]_vars

\* the phrase "<predicate> <object>" of a triple
PredicateObject(t) == t[2] \o Space \o t[3]

\* C7, as stated: every extracted triple whose predicate and object are not
\* empty contributes "<predicate> <object>" to the candidates of "what".
C7_EveryTripleContributes ==
    pc = "qa" =>
        \A i \in DOMAIN triples :
            (triples[i][2] # <<>> /\ triples[i][3] # <<>>) =>
                Member(PredicateObject(triples[i]), qa["what"])

\* C7, amended: every extracted triple whose predicate and object are not
\* empty and whose predicate is neither "amod" nor "nmod" contributes
\* "<predicate> <object>" to the candidates of "what".
C7_VerbTriplesContribute ==
    pc = "qa" =>
        \A i \in DOMAIN triples :
            (triples[i][2] # <<>> /\ triples[i][3] # <<>>
                /\ triples[i][2] \notin {AMOD, NMOD}) =>
                    Member(PredicateObject(triples[i]), qa["what"])

\* a verb triple with predicate and object was extracted and contributed
C7_Witness ==
    /\ pc = "qa"
    /\ \E i \in DOMAIN triples :
          /\ triples[i][2] \notin {<<>>, AMOD, NMOD} /\ triples[i][3] # <<>>
          /\ qa["what"] = <<PredicateObject(triples[i])>>

----------------------------------------------------------------------------
(* Named Entity Recognition: the entity map of analyze.                    *)

\* most entity spans of a document
MaxSpans == 2

\* most tokens of a document
MaxEntTokens == 2

EntTexts == {<<"A">>, <<" ", "a_breve">>, <<"b">>}

Spans == [text : EntTexts, label : {"LOC", "DATE", "PER"}]

EntTokens == {Token(t, t, "NOUN", "dep", 0, TRUE, e) : t \in EntTexts, e \in {"", "LOC", "DATE"}}

InitEntities ==
    /\ pc = "ner"
    /\ ents \in SeqsOf(Spans, 0, MaxSpans)
    /\ doc \in SeqsOf(EntTokens, 0, MaxEntTokens)
    /\ entities = <<>> /\ triples = <<>>
    /\ kg = [nodes |-> <<>>, links |-> <<>>]
    /\ qa = EmptyQA /\ ner_by_label = <<>>
    /\ KwIdle /\ ApiIdle

\* Named Entity Recognition
RecognizeEntities ==
    /\ pc = "ner"
    /\ entities' = named_entities(ents, doc)
    /\ pc' = "keywords"
    /\ UNCHANGED <<doc, ents, triples, kg, qa, ner_by_label, kwVars, apiVars>>

NextEntities == RecognizeEntities

SpecEntities == InitEntities /\ [][NextEntities]_vars

\* the label the first writer of key gives it: the first span with that
\* normalized text or, with no such span, the first token with that
\* normalized text and an entity type
FirstWriterLabel(key) ==
    LET SpanHas(i) == norm(Strip(ents[i].text)) = key
        TokenHas(i) == norm(Strip(doc[i].text)) = key /\ doc[i].ent_type # ""
    IN  IF \E i \in DOMAIN ents : SpanHas(i)
        THEN ents[CHOOSE i \in DOMAIN ents :
                    SpanHas(i) /\ \A j \in 1..(i - 1) : ~SpanHas(j)].label
        ELSE doc[CHOOSE i \in DOMAIN doc :
                    TokenHas(i) /\ \A j \in 1..(i - 1) : ~TokenHas(j)].ent_type

\* C9: in the entity map the first writer of a key wins: the label of a
\* normalized text is that of the first entity span with it or, with no such
\* span, the entity type of the first token with it.
C9_FirstWriterWins ==
    pc = "keywords" =>
        \A e \in DOMAIN entities : entities[e][2] = FirstWriterLabel(entities[e][1])

----------------------------------------------------------------------------
(* The subsumption filter of analyze: QA remove duplicates, NER remove     *)
(* duplicates.                                                             *)

\* most words of a phrase
MaxWords == 3

\* most candidate phrases of a bucket
MaxCandidates == 3

\* most entries of the entity map
MaxEntities == 2

PhraseWords == {<<"a">>, <<"b">>}

\* the phrases of n words, the words separated by one of seps
RECURSIVE PhrasesOf(_, _)
PhrasesOf(n, seps) ==
    IF n = 1 THEN PhraseWords
    ELSE {ph \o sep \o w : ph \in PhrasesOf(n - 1, seps), sep \in seps, w \in PhraseWords}

\* "<x> <y>" phrases and the like, of 1 to max words: single spaces
SpacedPhrases(max) == UNION {PhrasesOf(n, {Space}) : n \in 1..max}

\* spans of raw text of 1 to max words: the whitespace between two words is
\* as the text has it
RawPhrases(max) == UNION {PhrasesOf(n, {Space, Space \o Space}) : n \in 1..max}

\* entity maps of up to max entries: distinct keys
EntityDicts(max) ==
    {d \in SeqsOf(RawPhrases(MaxWords) \X {"LOC", "DATE"}, 0, max) :
        \A i, j \in DOMAIN d : i # j => d[i][1] # d[j][1]}

\* the state of analyze before `QA remove duplicates`
InitDedup ==
    /\ pc = "qa_dedup"
    /\ doc = <<>> /\ ents = <<>> /\ triples = <<>>
    /\ kg = [nodes |-> <<>>, links |-> <<>>]
    /\ ner_by_label = <<>>
    /\ \/ /\ entities = <<>>
          /\ \E key \in {"who", "what"} :
                \E c \in SeqsOf(SpacedPhrases(MaxWords), 0, MaxCandidates) :
                    qa = [EmptyQA EXCEPT ![key] = c]
       \/ /\ entities = <<>>
          /\ \E c \in SeqsOf(RawPhrases(MaxWords), 0, MaxCandidates) :
                qa = [EmptyQA EXCEPT !["why"] = c]
       \/ /\ entities \in EntityDicts(MaxEntities)
          /\ qa = [EmptyQA EXCEPT !["where"] = entity_phrases(entities, WhereLabels),
                                  !["when"] = entity_phrases(entities, WhenLabels)]
    /\ KwIdle /\ ApiIdle

\* QA remove duplicates
QARemoveDuplicates ==
    /\ pc = "qa_dedup"
    /\ qa' = [key \in DOMAIN qa |-> qa_clean(qa[key])]
    /\ pc' = "ner_dedup"
    /\ UNCHANGED <<doc, ents, entities, triples, kg, ner_by_label, kwVars, apiVars>>

\* NER remove duplicates
NERRemoveDuplicates ==
    /\ pc = "ner_dedup"
    /\ ner_by_label' = ner_groups(entities)
    /\ pc' = "result"
    /\ UNCHANGED <<doc, ents, entities, triples, kg, qa, kwVars, apiVars>>

NextDedup ==
    \/ QARemoveDuplicates
    \/ NERRemoveDuplicates

SpecDedup == InitDedup /\ [][NextDedup]_vars

\* no two distinct phrases of the list are such that the words of one are a
\* contiguous part of the words of the other
NoTokenSubsumption(phrases) ==
    \A i, j \in DOMAIN phrases :
        phrases[i] # phrases[j] => ~Contains(Split(phrases[j]), Split(phrases[i]))

\* C3: in the result, no QA bucket and no NER label group holds two distinct
\* phrases of which one is, word for word, a contiguous part of the other,
\* whatever the whitespace between the words.
C3_NoSubsumedPhrase ==
    pc = "result" =>
        /\ \A key \in DOMAIN qa : NoTokenSubsumption(qa[key])
        /\ \A g \in DOMAIN ner_by_label : NoTokenSubsumption(ner_by_label[g][2])

----------------------------------------------------------------------------
(* The /api/analyze route serving requests, one at a time.                 *)

FormTexts == {None, Some(<<>>), Some(<<"a">>)}

\* the bytes of an upload and, when they are a PDF, its pages
RawFiles ==
    {[bytes |-> <<"a", InvalidByte, "b">>, pages |-> None],
     [bytes |-> <<>>, pages |-> None],
     [bytes |-> <<"b", InvalidByte>>, pages |-> Some(<<<<"a">>, <<"b", "a">>>>)]}

Uploads ==
    [filename : {<<"x", ".", "P", "d", "f">>, <<"x", ".", "t", "x", "t">>},
     content_type : {"application/pdf", "text/plain"},
     raw : RawFiles]

Requests == [text : FormTexts, file : {None} \cup {Some(u) : u \in Uploads}]

InitApi ==
    /\ pc = "received"
    /\ doc = <<>>
    /\ request \in Requests
    /\ response = [kind |-> "none", body |-> <<>>]
    /\ analyzer_calls = <<>>
    /\ KwIdle /\ AnIdle

\* the handler, from the request to its return
Analyze ==
    /\ pc = "received"
    /\ response' = analyze_route(request).response
    /\ analyzer_calls' = analyze_route(request).calls
    /\ pc' = "responded"
    /\ UNCHANGED <<doc, request, kwVars, anVars>>

\* the next request arrives; analyzer_calls counts from it
Receive ==
    /\ pc = "responded"
    /\ request' \in Requests
    /\ analyzer_calls' = <<>>
    /\ pc' = "received"
    /\ UNCHANGED <<doc, response, kwVars, anVars>>

NextApi ==
    \/ Analyze
    \/ Receive

SpecApi == InitApi /\ [][NextApi]_vars

\* the upload is sent as a PDF: by its name or by its content type
SentAsPdf(file) ==
    EndsWith(Lower(file.filename), DotPdf) \/ file.content_type = "application/pdf"

\* the upload is sent as a PDF and its bytes are none
Unreadable(file) == SentAsPdf(file) /\ file.raw.pages = None

\* the text of a readable upload
FileContent(file) ==
    IF SentAsPdf(file) THEN Join(<<>>, file.raw.pages[1]) ELSE decode(file.raw.bytes)

\* C8: the handler calls the analyzer only when a file or a text was
\* supplied; with neither it returns an error and never calls the analyzer;
\* with a file, what is analyzed is the content of the file, not the text field.
C8_AnalyzerOnlyOnInput ==
    pc = "responded" =>
        /\ analyzer_calls # <<>> => (request.file # None \/ request.text # None)
        /\ (request.file = None /\ request.text = None) =>
              (response.kind = "error" /\ analyzer_calls = <<>>)
        /\ request.file # None =>
              IF Unreadable(request.file[1])
              THEN analyzer_calls = <<>> /\ response.kind = "exception"
              ELSE /\ analyzer_calls = <<FileContent(request.file[1])>>
                   /\ response = Analyzed(FileContent(request.file[1]))

\* a request with a file and a different text was analyzed
C8_Witness ==
    /\ pc = "responded"
    /\ request.file # None /\ request.text = Some(<<"a">>)
    /\ Len(analyzer_calls) = 1 /\ analyzer_calls[1] # <<"a">>

====
